---- MODULE Spec2Model ----
(***************************************************************************)
(* Model of the Tor supervisor of feather, src/src/utils/tor.cpp:          *)
(* construction (mode selection), start/stop, the QProcess callbacks       *)
(* (stateChanged, handleProcessOutput, handleProcessError), the periodic   *)
(* checkConnection, and the torrc parser getPeerFromConfig.                *)
(*                                                                         *)
(* The Tor object and its QProcess are one record, tor; every handler of   *)
(* the source is an operator from the record before the call to the record *)
(* after it, so that a callback sequence QProcess emits back to back is    *)
(* the composition of the handlers.                                        *)
(***************************************************************************)
EXTENDS Integers, Sequences, FiniteSets, TLC

VARIABLES
    ctx,        \* what the constructor read: command line, profile flags, staging, ports
    tor,        \* the fields of the Tor object, its QProcess and its timers
    portOpen,   \* the environment: is Tor::torHost:Tor::torPort accepting connections now
    lastEvent,  \* the handler that ran last, with what it was given
    received,   \* the chunks of child output read so far, in arrival order
    cfg,        \* getPeerFromConfig: the file at the path (text or missing) and the ports
    peer,       \* getPeerFromConfig: the networkPeer it returned
    pc,         \* getPeerFromConfig: "idle" before the call, "done" after it
    fileReads   \* getPeerFromConfig: how many times the call read the file (Utils::fileOpen)

vars == <<ctx, tor, portOpen, lastEvent, received, cfg, peer, pc, fileReads>>

(***************************************************************************)
(* Bounds of the model.                                                    *)
(***************************************************************************)
\* start() is called (externally or by a restart timer) until m_restarts reaches this
MaxStartCalls == 6
\* chunks of child output read over the life of the supervisor
MaxLogChunks == 2
\* lines of a torrc given to getPeerFromConfig
MaxLines == 2

(***************************************************************************)
(* Program constants.                                                      *)
(***************************************************************************)
DefaultTorPort == 9050
EmbeddedTorPort == 19450
MaxRestarts == 4
UShortRange == 65536
IntMax == 2147483647

\* the values given to --tor-port; cmdargs->value("tor-port") is "" when the option
\* is not set, and "".toUShort() is 0
TorPortArgs == {DefaultTorPort, 9150}
\* the ports the constructor may probe
CtorPorts == TorPortArgs \cup {DefaultTorPort, EmbeddedTorPort}

ErrNone == "none"
ErrTorPort == "--tor-port was specified but no running Tor instance was found on port"
ErrUseLocal == "--use-local-tor was specified but no running Tor instance found."
ErrAlready == "Can't start Tor, already running or starting"
ErrPortInUse == "Unable to start Tor. Port already in use."
ErrMaxRetries == "Tor failed to start: maximum retries exceeded"
ErrFailedToStart == "Tor binary failed to start"

NotKilled == "no"
NotRunning == "NotRunning"
Starting == "Starting"
Running == "Running"

(***************************************************************************)
(* Child output.  A chunk is a sequence of tokens; the bootstrap marker is *)
(* the two tokens "Bootstrapped" "100%" next to each other.                *)
(***************************************************************************)
BootstrapMarker == <<"Bootstrapped", "100%">>

Chunks ==
    { <<"Bootstrapped", "100%">>,
      <<"notice", "Bootstrapped", "100%", "Done">>,
      <<"Bootstrapped", "50%">>,
      <<"100%", "Bootstrapped">> }

\* QByteArray::contains: the needle occurs as a contiguous run of the haystack
Contains(hay, needle) ==
    \E i \in 1..(Len(hay) - Len(needle) + 1) :
        SubSeq(hay, i, i + Len(needle) - 1) = needle

\* Utils::barrayToString: the bytes of the chunk as text
barrayToString(output) == output

(***************************************************************************)
(* Tor::Tor                                                                *)
(***************************************************************************)
\* QString::toUShort: 0 when the number does not fit
toUShort(v) == IF v \in 0..(UShortRange - 1) THEN v ELSE 0

\* Utils::portOpen as the constructor sees it
CtorPortOpen(c, port) == port \in c.open

NewTor ==
    [ localTor |-> FALSE, torPort |-> DefaultTorPort, errorMsg |-> ErrNone,
      wired |-> FALSE, torConnected |-> FALSE, m_restarts |-> 0,
      m_stopRetries |-> FALSE, torLogs |-> <<>>, timerActive |-> FALSE,
      pending |-> 0, procState |-> NotRunning, killed |-> NotKilled,
      live |-> 0, spawned |-> 0, emitted |-> <<>> ]

\* Ctor with the Whonix profile left out of the test of line 40
Ctor_ForgetsWhonix(c) ==
    IF c.torPortSet
    THEN LET p == toUShort(c.torPortArg) IN
         [NewTor EXCEPT !.torPort = p, !.localTor = TRUE,
                        !.errorMsg = IF ~CtorPortOpen(c, p) THEN ErrTorPort ELSE ErrNone]
    ELSE LET t1 == [NewTor EXCEPT !.localTor = c.useLocalTor]
             t2 == IF t1.localTor /\ ~CtorPortOpen(c, t1.torPort)
                   THEN [t1 EXCEPT !.errorMsg = ErrUseLocal] ELSE t1
             t3 == IF c.isTorSocks \/ c.isTails \/ CtorPortOpen(c, t2.torPort)
                   THEN [t2 EXCEPT !.localTor = TRUE] ELSE t2
         IN  IF t3.localTor THEN t3
             ELSE IF ~c.unpacked THEN [t3 EXCEPT !.localTor = TRUE]
             ELSE LET t4 == [t3 EXCEPT !.torPort = EmbeddedTorPort] IN
                  IF CtorPortOpen(c, t4.torPort) THEN [t4 EXCEPT !.localTor = TRUE]
                  ELSE [t4 EXCEPT !.wired = TRUE]

Ctor(c) ==
    IF c.torPortSet
    THEN LET p == toUShort(c.torPortArg) IN
         [NewTor EXCEPT !.torPort = p, !.localTor = TRUE,
                        !.errorMsg = IF ~CtorPortOpen(c, p) THEN ErrTorPort ELSE ErrNone]
    ELSE LET t1 == [NewTor EXCEPT !.localTor = c.useLocalTor]
             t2 == IF t1.localTor /\ ~CtorPortOpen(c, t1.torPort)
                   THEN [t1 EXCEPT !.errorMsg = ErrUseLocal] ELSE t1
             t3 == IF c.isTorSocks \/ c.isTails \/ c.isWhonix \/ CtorPortOpen(c, t2.torPort)
                   THEN [t2 EXCEPT !.localTor = TRUE] ELSE t2
         IN  IF t3.localTor THEN t3
             ELSE IF ~c.unpacked THEN [t3 EXCEPT !.localTor = TRUE]
             ELSE LET t4 == [t3 EXCEPT !.torPort = EmbeddedTorPort] IN
                  IF CtorPortOpen(c, t4.torPort) THEN [t4 EXCEPT !.localTor = TRUE]
                  ELSE [t4 EXCEPT !.wired = TRUE]

(***************************************************************************)
(* Tor::setConnectionState, Tor::checkConnection                           *)
(***************************************************************************)
\* setConnectionState that notifies first and writes the field afterwards: the
\* notification carries the value the field has when it is emitted
setConnectionState_NotifiesFirst(t, connected) ==
    [t EXCEPT !.torConnected = connected,
              !.emitted = Append(@, <<"connectionStateChanged", t.torConnected>>)]

setConnectionState(t, connected) ==
    [t EXCEPT !.torConnected = connected,
              !.emitted = Append(@, <<"connectionStateChanged", connected>>)]

\* checkConnection asking the Tails helper before it looks at the Whonix flag
checkConnection_TailsBeforeWhonix(t, code) ==
    IF ctx.isTorSocks THEN setConnectionState(t, TRUE)
    ELSE IF ctx.isTails THEN setConnectionState(t, code = 0)
    ELSE IF ctx.isWhonix THEN setConnectionState(t, TRUE)
    ELSE IF portOpen THEN setConnectionState(t, TRUE)
    ELSE setConnectionState(t, FALSE)

\* code: the exit status of `systemctl --quiet is-active tails-tor-has-bootstrapped.target`
checkConnection(t, code) ==
    IF ctx.isTorSocks THEN setConnectionState(t, TRUE)
    ELSE IF ctx.isWhonix THEN setConnectionState(t, TRUE)
    ELSE IF ctx.isTails THEN setConnectionState(t, code = 0)
    ELSE IF portOpen THEN setConnectionState(t, TRUE)
    ELSE setConnectionState(t, FALSE)

(***************************************************************************)
(* Tor::stateChanged, Tor::handleProcessError, Tor::handleProcessOutput    *)
(***************************************************************************)
\* stateChanged without the test of m_stopRetries
stateChanged_IgnoresStopRetries(t, state) ==
    IF state = Running THEN t
    ELSE IF state = NotRunning
         THEN [setConnectionState(t, FALSE) EXCEPT !.pending = @ + 1]
    ELSE t

\* stateChanged that never arms the restart timer
stateChanged_NeverRestarts(t, state) ==
    IF state = Running THEN t
    ELSE IF state = NotRunning THEN setConnectionState(t, FALSE)
    ELSE t

\* stateChanged taking the Running state of the child for a connection
stateChanged_RunningConnects(t, state) ==
    IF state = Running THEN setConnectionState(t, TRUE)
    ELSE IF state = NotRunning
         THEN LET t1 == setConnectionState(t, FALSE) IN
              IF t1.m_stopRetries THEN t1
              ELSE [t1 EXCEPT !.pending = @ + 1]
    ELSE t

stateChanged(t, state) ==
    IF state = Running THEN t
    ELSE IF state = NotRunning
         THEN LET t1 == setConnectionState(t, FALSE) IN
              IF t1.m_stopRetries THEN t1
              ELSE [t1 EXCEPT !.pending = @ + 1]
    ELSE t

\* handleProcessError arming a restart of its own at a crash
handleProcessError_CrashRestarts(t, error) ==
    IF error = "Crashed" THEN [t EXCEPT !.pending = @ + 1]
    ELSE IF error = "FailedToStart"
         THEN [t EXCEPT !.errorMsg = ErrFailedToStart, !.m_stopRetries = TRUE]
    ELSE t

handleProcessError(t, error) ==
    IF error = "Crashed" THEN t
    ELSE IF error = "FailedToStart"
         THEN [t EXCEPT !.errorMsg = ErrFailedToStart, !.m_stopRetries = TRUE]
    ELSE t

\* handleProcessOutput flipping the flag at each marker instead of setting it
handleProcessOutput_Toggles(t, output) ==
    LET t1 == [t EXCEPT !.torLogs = @ \o barrayToString(output),
                        !.emitted = Append(@, <<"logsUpdated">>)]
    IN  IF Contains(output, BootstrapMarker)
        THEN setConnectionState(t1, ~t.torConnected) ELSE t1

\* handleProcessOutput putting the new chunk in front of the log
handleProcessOutput_Prepends(t, output) ==
    LET t1 == [t EXCEPT !.torLogs = barrayToString(output) \o @,
                        !.emitted = Append(@, <<"logsUpdated">>)]
    IN  IF Contains(output, BootstrapMarker) THEN setConnectionState(t1, TRUE) ELSE t1

handleProcessOutput(t, output) ==
    LET t1 == [t EXCEPT !.torLogs = @ \o barrayToString(output),
                        !.emitted = Append(@, <<"logsUpdated">>)]
    IN  IF Contains(output, BootstrapMarker) THEN setConnectionState(t1, TRUE) ELSE t1

(***************************************************************************)
(* QProcess as Tor uses it                                                 *)
(***************************************************************************)
\* the signals of m_process reach the handlers once the constructor has connected
\* them (lines 63-65)
emitStateChanged(t, state) == IF t.wired THEN stateChanged(t, state) ELSE t
emitErrorOccurred(t, error) == IF t.wired THEN handleProcessError(t, error) ELSE t

\* m_process.start(torPath, arguments): a child is forked, the state is Starting
processStart(t) ==
    emitStateChanged([t EXCEPT !.procState = Starting, !.killed = NotKilled,
                           !.live = @ + 1, !.spawned = @ + 1], Starting)

\* m_process.kill(): SIGKILL to the child, if there is one; killed keeps the state
\* the child was in when the first signal was sent
processKill(t) ==
    IF t.procState = NotRunning \/ t.killed # NotKilled THEN t
    ELSE [t EXCEPT !.killed = t.procState]

(***************************************************************************)
(* Tor::start, Tor::stop                                                   *)
(***************************************************************************)
\* start with the ceiling one too high
start_LateCeiling(t, code) ==
    IF t.localTor
    THEN [checkConnection(t, code) EXCEPT !.timerActive = TRUE]
    ELSE IF t.procState = Running \/ t.procState = Starting
         THEN [t EXCEPT !.errorMsg = ErrAlready]
    ELSE IF portOpen
         THEN [t EXCEPT !.errorMsg = ErrPortInUse]
    ELSE LET t1 == [t EXCEPT !.m_restarts = @ + 1] IN
         IF t1.m_restarts > MaxRestarts + 1
         THEN [t1 EXCEPT !.errorMsg = ErrMaxRetries]
         ELSE processStart(t1)

\* start refusing only a Running child, not a Starting one
start_RunningOnly(t, code) ==
    IF t.localTor
    THEN [checkConnection(t, code) EXCEPT !.timerActive = TRUE]
    ELSE IF t.procState = Running
         THEN [t EXCEPT !.errorMsg = ErrAlready]
    ELSE IF portOpen
         THEN [t EXCEPT !.errorMsg = ErrPortInUse]
    ELSE LET t1 == [t EXCEPT !.m_restarts = @ + 1] IN
         IF t1.m_restarts > MaxRestarts
         THEN [t1 EXCEPT !.errorMsg = ErrMaxRetries]
         ELSE processStart(t1)

\* start without the test of the child's state
start_NoStateCheck(t, code) ==
    IF t.localTor
    THEN [checkConnection(t, code) EXCEPT !.timerActive = TRUE]
    ELSE IF portOpen
         THEN [t EXCEPT !.errorMsg = ErrPortInUse]
    ELSE LET t1 == [t EXCEPT !.m_restarts = @ + 1] IN
         IF t1.m_restarts > MaxRestarts
         THEN [t1 EXCEPT !.errorMsg = ErrMaxRetries]
         ELSE processStart(t1)

\* start without the return of the localTor branch
start_LocalTorFallsThrough(t, code) ==
    LET t0 == IF t.localTor
              THEN [checkConnection(t, code) EXCEPT !.timerActive = TRUE] ELSE t
    IN  IF t0.procState = Running \/ t0.procState = Starting
        THEN [t0 EXCEPT !.errorMsg = ErrAlready]
        ELSE IF portOpen
             THEN [t0 EXCEPT !.errorMsg = ErrPortInUse]
        ELSE LET t1 == [t0 EXCEPT !.m_restarts = @ + 1] IN
             IF t1.m_restarts > MaxRestarts
             THEN [t1 EXCEPT !.errorMsg = ErrMaxRetries]
             ELSE processStart(t1)

\* start that counts the attempt, and tests the ceiling, before it probes the port
start_ProbesAfterCounting(t, code) ==
    IF t.localTor
    THEN [checkConnection(t, code) EXCEPT !.timerActive = TRUE]
    ELSE IF t.procState = Running \/ t.procState = Starting
         THEN [t EXCEPT !.errorMsg = ErrAlready]
    ELSE LET t1 == [t EXCEPT !.m_restarts = @ + 1] IN
         IF t1.m_restarts > MaxRestarts
         THEN [t1 EXCEPT !.errorMsg = ErrMaxRetries]
         ELSE IF portOpen
              THEN [t1 EXCEPT !.errorMsg = ErrPortInUse]
         ELSE processStart(t1)

\* start that counts an attempt aborted by the port probe as well
start_CountsAborts(t, code) ==
    IF t.localTor
    THEN [checkConnection(t, code) EXCEPT !.timerActive = TRUE]
    ELSE IF t.procState = Running \/ t.procState = Starting
         THEN [t EXCEPT !.errorMsg = ErrAlready]
    ELSE IF portOpen
         THEN [t EXCEPT !.errorMsg = ErrPortInUse, !.m_restarts = @ + 1]
    ELSE LET t1 == [t EXCEPT !.m_restarts = @ + 1] IN
         IF t1.m_restarts > MaxRestarts
         THEN [t1 EXCEPT !.errorMsg = ErrMaxRetries]
         ELSE processStart(t1)

\* start that clears the launch-failure latch when it launches
start_ClearsStopRetries(t, code) ==
    IF t.localTor
    THEN [checkConnection(t, code) EXCEPT !.timerActive = TRUE]
    ELSE IF t.procState = Running \/ t.procState = Starting
         THEN [t EXCEPT !.errorMsg = ErrAlready]
    ELSE IF portOpen
         THEN [t EXCEPT !.errorMsg = ErrPortInUse]
    ELSE LET t1 == [t EXCEPT !.m_restarts = @ + 1] IN
         IF t1.m_restarts > MaxRestarts
         THEN [t1 EXCEPT !.errorMsg = ErrMaxRetries]
         ELSE processStart([t1 EXCEPT !.m_stopRetries = FALSE])

start(t, code) ==
    IF t.localTor
    THEN [checkConnection(t, code) EXCEPT !.timerActive = TRUE]
    ELSE IF t.procState = Running \/ t.procState = Starting
         THEN [t EXCEPT !.errorMsg = ErrAlready]
    ELSE IF portOpen
         THEN [t EXCEPT !.errorMsg = ErrPortInUse]
    ELSE LET t1 == [t EXCEPT !.m_restarts = @ + 1] IN
         IF t1.m_restarts > MaxRestarts
         THEN [t1 EXCEPT !.errorMsg = ErrMaxRetries]
         ELSE processStart(t1)

\* stop that also cancels the restart timers
stop_CancelsRestarts(t) == [processKill(t) EXCEPT !.pending = 0]

stop(t) == processKill(t)

(***************************************************************************)
(* Tor::getPeerFromConfig.  Text is a sequence of one-character strings.   *)
(***************************************************************************)
Digits == {"0", "1", "2", "3", "4", "5", "6", "7", "8", "9"}

\* the character class [\d|.|:] of the regular expression
ReClass == Digits \cup {"|", ".", ":"}

\* the literal the regular expression starts with, "SocksPort "
RePrefix == <<"S", "o", "c", "k", "s", "P", "o", "r", "t", " ">>

DefaultHost == <<"1", "2", "7", ".", "0", ".", "0", ".", "1">>

Newline == "\n"

\* re.match(line).hasMatch() for ^SocksPort ([\d|.|:]+)
hasMatch(line) ==
    /\ Len(line) > Len(RePrefix)
    /\ SubSeq(line, 1, Len(RePrefix)) = RePrefix
    /\ line[Len(RePrefix) + 1] \in ReClass

\* match.captured(1): the longest run of class characters after the prefix
captured(line) ==
    LET first == Len(RePrefix) + 1
        last == CHOOSE k \in first..Len(line) :
                    /\ \A i \in first..k : line[i] \in ReClass
                    /\ k = Len(line) \/ line[k + 1] \notin ReClass
    IN  SubSeq(line, first, last)

\* QString::indexOf: the 0-based position of the first ch, or -1
indexOf(str, ch) ==
    IF \E i \in 1..Len(str) : str[i] = ch
    THEN (CHOOSE i \in 1..Len(str) : str[i] = ch /\ \A j \in 1..(i - 1) : str[j] # ch) - 1
    ELSE -1

\* QString::mid(pos, n) and QString::mid(pos), positions 0-based
mid(str, pos, n) == SubSeq(str, pos + 1, pos + n)
midFrom(str, pos) == SubSeq(str, pos + 1, Len(str))

\* Utils::isDigit: every character is a digit
isDigit(str) == \A i \in 1..Len(str) : str[i] \in Digits

DigitValue(d) ==
    CASE d = "0" -> 0 [] d = "1" -> 1 [] d = "2" -> 2 [] d = "3" -> 3 [] d = "4" -> 4
      [] d = "5" -> 5 [] d = "6" -> 6 [] d = "7" -> 7 [] d = "8" -> 8 [] d = "9" -> 9

RECURSIVE Decimal(_)
Decimal(str) ==
    IF str = <<>> THEN 0
    ELSE 10 * Decimal(SubSeq(str, 1, Len(str) - 1)) + DigitValue(str[Len(str)])

\* QString::toInt: 0 when the text is no number or does not fit an int
toInt(str) ==
    IF str = <<>> \/ ~isDigit(str) THEN 0
    ELSE IF Decimal(str) > IntMax THEN 0
    ELSE Decimal(str)

\* the cast (quint16)
quint16(n) == n % UShortRange

\* QString::split('\n'): the parts between the separators, empty parts kept
RECURSIVE split(_, _)
split(text, sep) ==
    LET i == indexOf(text, sep) IN
    IF i < 0 THEN <<text>>
    ELSE <<mid(text, 0, i)>> \o split(midFrom(text, i + 1), sep)

\* Utils::fileExists, Utils::fileOpen and Utils::portOpen on the parser's inputs
fileExists(c) == c.exists
fileOpen(c) == c.text
PeerPortOpen(c, host, port) ==
    IF host = DefaultHost /\ port = DefaultTorPort THEN c.openDefault ELSE c.openOther

\* the loop without its breaks: a later valid line overrides an earlier one
RECURSIVE scanLines_LastWins(_, _)
scanLines_LastWins(lines, p) ==
    IF lines = <<>> THEN p
    ELSE LET line == Head(lines) IN
         IF ~hasMatch(line) THEN scanLines_LastWins(Tail(lines), p)
         ELSE LET match_group == captured(line)
                  host_idx == indexOf(match_group, ":")
              IN  IF host_idx >= 1
                  THEN LET p1 == [p EXCEPT !.host = mid(match_group, 0, host_idx)]
                           port == midFrom(match_group, host_idx + 1)
                       IN  IF ~isDigit(port) THEN scanLines_LastWins(Tail(lines), p1)
                           ELSE scanLines_LastWins(Tail(lines),
                                    [p1 EXCEPT !.port = quint16(toInt(port))])
                  ELSE IF isDigit(match_group)
                       THEN scanLines_LastWins(Tail(lines),
                                [p EXCEPT !.port = quint16(toInt(match_group))])
                       ELSE scanLines_LastWins(Tail(lines), p)

\* the loop over the lines: p is the peer so far, the result is the peer at the
\* break or at the end of the lines
RECURSIVE scanLines(_, _)
scanLines(lines, p) ==
    IF lines = <<>> THEN p
    ELSE LET line == Head(lines) IN
         IF ~hasMatch(line) THEN scanLines(Tail(lines), p)
         ELSE LET match_group == captured(line)
                  host_idx == indexOf(match_group, ":")
              IN  IF host_idx >= 1
                  THEN LET p1 == [p EXCEPT !.host = mid(match_group, 0, host_idx)]
                           port == midFrom(match_group, host_idx + 1)
                       IN  IF ~isDigit(port) THEN scanLines(Tail(lines), p1)
                           ELSE [p1 EXCEPT !.port = quint16(toInt(port))]
                  ELSE IF isDigit(match_group)
                       THEN [p EXCEPT !.port = quint16(toInt(match_group))]
                       ELSE scanLines(Tail(lines), p)

\* the call with the default peer probed whatever was parsed
getPeerRun_ProbesDefault(c) ==
    LET peer0 == [host |-> DefaultHost, port |-> DefaultTorPort, active |-> FALSE] IN
    IF ~fileExists(c)
    THEN [ peer |-> [peer0 EXCEPT !.active = PeerPortOpen(c, peer0.host, peer0.port)],
           fileReads |-> 0 ]
    ELSE LET p == scanLines(split(fileOpen(c), Newline), peer0) IN
         [ peer |-> [p EXCEPT !.active = PeerPortOpen(c, peer0.host, peer0.port)],
           fileReads |-> 1 ]

\* the call: the networkPeer it returns, and how many times it called Utils::fileOpen
getPeerRun(c) ==
    LET peer0 == [host |-> DefaultHost, port |-> DefaultTorPort, active |-> FALSE] IN
    IF ~fileExists(c)
    THEN [ peer |-> [peer0 EXCEPT !.active = PeerPortOpen(c, peer0.host, peer0.port)],
           fileReads |-> 0 ]
    ELSE LET p == scanLines(split(fileOpen(c), Newline), peer0) IN
         [ peer |-> [p EXCEPT !.active = PeerPortOpen(c, p.host, p.port)],
           fileReads |-> 1 ]

getPeerFromConfig(c) == getPeerRun(c).peer

(***************************************************************************)
(* The torrc files given to the parser: up to MaxLines of these lines,     *)
(* joined by newlines.                                                     *)
(***************************************************************************)
CfgLines ==
    { RePrefix \o <<"1", ".", "1", ":", "9", "1">>,
      RePrefix \o <<"2", ".", "2", ":", "9", "2">>,
      RePrefix \o <<"9", "3">>,
      RePrefix \o <<"9", "7", " ", "x">>,
      RePrefix \o <<"3", ".", "3", ":", "9", ".", "4">>,
      RePrefix \o <<":", "9", "5">>,
      RePrefix \o <<"4", ".", "4", ":", "6", "5", "5", "3", "7">>,
      <<"#">> \o RePrefix \o <<"6", ".", "6", ":", "9", "6">> }

RECURSIVE joinLines(_)
joinLines(lines) ==
    IF lines = <<>> THEN <<>>
    ELSE IF Len(lines) = 1 THEN lines[1]
    ELSE lines[1] \o <<Newline>> \o joinLines(Tail(lines))

CfgTexts == UNION { { joinLines(ls) : ls \in [1..n -> CfgLines] } : n \in 0..MaxLines }

CfgInputs ==
    [ exists : {TRUE}, text : CfgTexts, openDefault : BOOLEAN, openOther : BOOLEAN ]
    \cup [ exists : {FALSE}, text : {<<>>}, openDefault : BOOLEAN, openOther : BOOLEAN ]

(***************************************************************************)
(* The supervisor's steps: calls from the application, timers, and the     *)
(* events of the child process.                                            *)
(***************************************************************************)
Begin(t) == [t EXCEPT !.emitted = <<>>]

\* the exit status the systemctl helper has, or would have, when it is run
HelperCodes == {0, 3}

CtxInputs ==
    [ torPortSet : BOOLEAN, torPortArg : TorPortArgs \cup {0}, useLocalTor : BOOLEAN, isTorSocks : BOOLEAN,
      isTails : BOOLEAN, isWhonix : BOOLEAN, unpacked : BOOLEAN,
      open : SUBSET CtorPorts ]

NoPeer == [host |-> <<>>, port |-> 0, active |-> FALSE]
NoCfg == [exists |-> FALSE, text |-> <<>>, openDefault |-> FALSE, openOther |-> FALSE]

Init ==
    /\ ctx \in CtxInputs
    /\ ctx.torPortSet <=> ctx.torPortArg # 0
    /\ tor = Ctor(ctx)
    /\ portOpen \in BOOLEAN
    /\ lastEvent = <<"Tor">>
    /\ received = <<>>
    /\ cfg = NoCfg
    /\ peer = NoPeer
    /\ pc = "idle"
    /\ fileReads = 0

ParserIdle == UNCHANGED <<cfg, peer, pc, fileReads>>

\* the application calls start()
CallStart ==
    /\ tor.m_restarts < MaxStartCalls
    /\ \E code \in (IF tor.localTor THEN HelperCodes ELSE {0}) :
        /\ tor' = start(Begin(tor), code)
        /\ lastEvent' = <<"start", "call">>
    /\ UNCHANGED <<ctx, portOpen, received>>
    /\ ParserIdle

\* a QTimer::singleShot(1000, ...) armed by stateChanged fires and calls start();
\* the timers are as many as the exits of children, so this needs no bound
RestartTimer ==
    /\ tor.pending > 0
    /\ tor' = start([Begin(tor) EXCEPT !.pending = @ - 1], 0)
    /\ lastEvent' = <<"start", "timer">>
    /\ UNCHANGED <<ctx, portOpen, received>>
    /\ ParserIdle

\* the application calls stop()
CallStop ==
    /\ tor' = stop(Begin(tor))
    /\ lastEvent' = <<"stop">>
    /\ UNCHANGED <<ctx, portOpen, received>>
    /\ ParserIdle

\* m_checkConnectionTimer times out
CheckTimer ==
    /\ tor.timerActive
    /\ \E code \in HelperCodes :
        /\ tor' = checkConnection(Begin(tor), code)
        /\ lastEvent' = <<"checkConnection", code>>
    /\ UNCHANGED <<ctx, portOpen, received>>
    /\ ParserIdle

\* the child has been executed: QProcess goes to Running
ProcStarted ==
    /\ tor.procState = Starting
    /\ tor' = emitStateChanged([Begin(tor) EXCEPT !.procState = Running], Running)
    /\ lastEvent' = <<"started">>
    /\ UNCHANGED <<ctx, portOpen, received>>
    /\ ParserIdle

\* the child could not be executed: QProcess goes back to NotRunning and reports
\* FailedToStart; which of stateChanged and errorOccurred it emits first is Qt's choice
ProcFailedToStart ==
    /\ tor.procState = Starting
    /\ \E order \in {"stateFirst", "errorFirst"} :
        LET t0 == [Begin(tor) EXCEPT !.procState = NotRunning, !.killed = NotKilled,
                                      !.live = @ - 1]
        IN  /\ tor' = IF order = "stateFirst"
                      THEN emitErrorOccurred(emitStateChanged(t0, NotRunning), "FailedToStart")
                      ELSE emitStateChanged(emitErrorOccurred(t0, "FailedToStart"), NotRunning)
            /\ lastEvent' = <<"failedToStart", order>>
    /\ UNCHANGED <<ctx, portOpen, received>>
    /\ ParserIdle

\* the running child exits by itself with an exit code
ProcExited ==
    /\ tor.procState = Running
    /\ tor.killed = NotKilled
    /\ tor' = emitStateChanged([Begin(tor) EXCEPT !.procState = NotRunning, !.live = @ - 1],
                           NotRunning)
    /\ lastEvent' = <<"exited">>
    /\ UNCHANGED <<ctx, portOpen, received>>
    /\ ParserIdle

\* the running child dies of a signal (a crash, or the SIGKILL of stop()):
\* errorOccurred(Crashed), then stateChanged(NotRunning)
ProcCrashed ==
    /\ tor.procState = Running
    /\ LET t0 == emitErrorOccurred(Begin(tor), "Crashed") IN
       tor' = emitStateChanged([t0 EXCEPT !.procState = NotRunning, !.killed = NotKilled,
                                      !.live = @ - 1], NotRunning)
    /\ lastEvent' = <<"crashed", tor.killed>>
    /\ UNCHANGED <<ctx, portOpen, received>>
    /\ ParserIdle

\* readyReadStandardOutput: the running child wrote a chunk
ProcOutput ==
    /\ tor.procState = Running
    /\ tor.wired
    /\ Len(received) < MaxLogChunks
    /\ \E output \in Chunks :
        /\ tor' = handleProcessOutput(Begin(tor), output)
        /\ received' = Append(received, output)
        /\ lastEvent' = <<"output", output>>
    /\ UNCHANGED <<ctx, portOpen>>
    /\ ParserIdle

\* somebody else binds or releases Tor::torHost:Tor::torPort
EnvPort ==
    /\ portOpen' = ~portOpen
    /\ UNCHANGED <<ctx, tor, lastEvent, received>>
    /\ ParserIdle

Next ==
    \/ CallStart
    \/ RestartTimer
    \/ CallStop
    \/ CheckTimer
    \/ ProcStarted
    \/ ProcFailedToStart
    \/ ProcExited
    \/ ProcCrashed
    \/ ProcOutput
    \/ EnvPort

Spec == Init /\ [][Next]_vars

\* the event loop runs: a single-shot timer that was armed fires
SpecFair == Init /\ [][Next]_vars /\ WF_vars(RestartTimer)

(***************************************************************************)
(* The specification of the parser: any of the files, one call.            *)
(***************************************************************************)
SupervisorIdle == UNCHANGED <<ctx, tor, portOpen, lastEvent, received>>

InitParse ==
    /\ ctx = [ torPortSet |-> FALSE, torPortArg |-> 0, useLocalTor |-> FALSE,
               isTorSocks |-> FALSE, isTails |-> FALSE, isWhonix |-> FALSE,
               unpacked |-> TRUE, open |-> {} ]
    /\ tor = Ctor(ctx)
    /\ portOpen = FALSE
    /\ lastEvent = <<"Tor">>
    /\ received = <<>>
    /\ cfg \in CfgInputs
    /\ peer = NoPeer
    /\ pc = "idle"
    /\ fileReads = 0

CallGetPeerFromConfig ==
    /\ pc = "idle"
    /\ peer' = getPeerFromConfig(cfg)
    /\ fileReads' = getPeerRun(cfg).fileReads
    /\ pc' = "done"
    /\ UNCHANGED cfg
    /\ SupervisorIdle

NextParse == CallGetPeerFromConfig

SpecParse == InitParse /\ [][NextParse]_vars

(***************************************************************************)
(* Steps of the supervisor that the properties speak of.                   *)
(***************************************************************************)
\* a step that is a call of start(), from the application or from a restart timer
StartCalled == CallStart \/ RestartTimer

\* a step in which QProcess reports the state change to NotRunning
BecameNotRunning == tor.procState # NotRunning /\ tor'.procState = NotRunning

\* a step in which a chunk of child output was handled
OutputHandled == Len(received') = Len(received) + 1

(***************************************************************************)
(* C1: in embedded mode the 5th start() that reaches the restart counter   *)
(* is rejected with the "maximum retries exceeded" error and spawns        *)
(* nothing, no start() after it spawns either, and a 6th process is never  *)
(* spawned.                                                                *)
(***************************************************************************)
C1_FifthStartRejected ==
    [][ (StartCalled /\ ~tor.localTor) =>
          /\ (tor'.m_restarts = tor.m_restarts + 1 /\ tor'.m_restarts >= 5) =>
                (/\ tor'.errorMsg = ErrMaxRetries
                 /\ tor'.spawned = tor.spawned
                 /\ tor'.live = tor.live
                 /\ tor'.procState = tor.procState)
          /\ tor.m_restarts >= 5 => tor'.spawned = tor.spawned
          /\ tor'.spawned < 6 ]_vars

C1_Witness ==
    /\ ~tor.localTor
    /\ lastEvent[1] = "start"
    /\ tor.m_restarts = 5
    /\ tor.spawned = 4
    /\ tor.errorMsg = ErrMaxRetries

(***************************************************************************)
(* C2: start() in embedded mode while the child is Running or Starting     *)
(* records the "already running or starting" error, spawns nothing (one    *)
(* live process before and after) and leaves the restart counter alone.    *)
(***************************************************************************)
C2_StartWhileRunning ==
    [][ (StartCalled /\ ~tor.localTor /\ tor.procState \in {Running, Starting}) =>
          /\ tor'.errorMsg = ErrAlready
          /\ tor.live = 1 /\ tor'.live = 1
          /\ tor'.spawned = tor.spawned
          /\ tor'.procState = tor.procState
          /\ tor'.m_restarts = tor.m_restarts ]_vars

C2_Witness ==
    /\ ~tor.localTor
    /\ lastEvent = <<"start", "call">>
    /\ tor.procState = Running
    /\ tor.errorMsg = ErrAlready
    /\ tor.live = 1
    /\ tor.m_restarts = 1

(***************************************************************************)
(* C3: once a "failed to start" error has set m_stopRetries, it stays set, *)
(* and no later state change to NotRunning arms a restart timer.           *)
(***************************************************************************)
C3_StopRetriesLatched ==
    [][ tor.m_stopRetries =>
          /\ tor'.m_stopRetries
          /\ BecameNotRunning => tor'.pending = tor.pending ]_vars

\* a crash is notified after the latch was set, and no timer is pending after it
C3_Witness ==
    /\ tor.m_stopRetries
    /\ lastEvent[1] = "crashed"
    /\ tor.spawned >= 2
    /\ tor.pending = 0

(***************************************************************************)
(* C4: in embedded mode a chunk of output holding the bootstrap marker     *)
(* leaves torConnected true, whether it was false or true before; no chunk *)
(* of output takes torConnected from true back to false.                   *)
(***************************************************************************)
C4_BootstrapMarkerConnects ==
    [][ (OutputHandled /\ ~tor.localTor) =>
          /\ Contains(received'[Len(received')], BootstrapMarker) =>
                (/\ tor'.torConnected
                 /\ tor'.emitted[Len(tor'.emitted)] = <<"connectionStateChanged", TRUE>>)
          /\ tor.torConnected => tor'.torConnected ]_vars

\* two chunks with the marker were handled, the second with torConnected already true
C4_Witness ==
    /\ ~tor.localTor
    /\ Len(received) = 2
    /\ Contains(received[1], BootstrapMarker)
    /\ Contains(received[2], BootstrapMarker)
    /\ lastEvent[1] = "output"
    /\ tor.torConnected

(***************************************************************************)
(* C5: a supervisor constructed with localTor = true stays in that mode    *)
(* and never spawns a child process, whatever is called or happens.        *)
(***************************************************************************)
C5_LocalTorNeverSpawns ==
    [][ tor.localTor =>
          /\ tor'.localTor
          /\ tor'.torPort = tor.torPort
          /\ tor.spawned = 0 /\ tor'.spawned = 0
          /\ tor'.live = 0
          /\ tor'.procState = NotRunning ]_vars

\* --tor-port given, its port closed at construction: start() and stop() were called
C5_Witness ==
    /\ ctx.torPortSet
    /\ ctx.torPortArg \notin ctx.open
    /\ tor.localTor
    /\ tor.errorMsg = ErrTorPort
    /\ tor.timerActive
    /\ lastEvent[1] = "stop"
    /\ tor.spawned = 0

(***************************************************************************)
(* C6: the death of a child that stop() killed while it was running arms   *)
(* no restart timer.                                                       *)
(***************************************************************************)
C6_StopSchedulesNoRestart ==
    [][ (tor.killed = Running /\ tor.procState = Running /\ BecameNotRunning) =>
          tor'.pending = tor.pending ]_vars

(***************************************************************************)
(* C7: at most one child process of the supervisor is live, and one is     *)
(* live exactly when QProcess is Starting or Running.                      *)
(***************************************************************************)
C7_AtMostOneChild ==
    /\ tor.live \in {0, 1}
    /\ tor.live = 1 <=> tor.procState \in {Starting, Running}

\* a child is live while a restart timer is pending and start() was just called
C7_Witness ==
    /\ tor.live = 1
    /\ tor.pending >= 1
    /\ tor.spawned >= 2
    /\ lastEvent[1] = "start"

\* the inputs of the constructor under which embedded mode is expected
C8_EmbeddedCondition ==
    /\ ~ctx.torPortSet /\ ~ctx.useLocalTor /\ ~ctx.isTorSocks /\ ~ctx.isTails
    /\ ~ctx.isWhonix /\ DefaultTorPort \notin ctx.open /\ ctx.unpacked
    /\ EmbeddedTorPort \notin ctx.open

(***************************************************************************)
(* C8: construction selects embedded mode (localTor false, port 19450,     *)
(* callbacks connected) exactly when no --tor-port, no --use-local-tor,    *)
(* not torsocks, not Tails, not Whonix, port 9050 closed, the binary       *)
(* unpacked and port 19450 closed; otherwise localTor is true; and an      *)
(* error message is left only when --tor-port or --use-local-tor was given *)
(* and its port was not open.                                              *)
(***************************************************************************)
C8_ModeSelection ==
    lastEvent[1] = "Tor" =>
        /\ ~tor.localTor <=> C8_EmbeddedCondition
        /\ ~tor.localTor => (tor.torPort = EmbeddedTorPort /\ tor.wired)
        /\ tor.localTor => ~tor.wired
        /\ tor.errorMsg # ErrNone =>
              \/ ctx.torPortSet /\ ctx.torPortArg \notin ctx.open
              \/ ctx.useLocalTor /\ DefaultTorPort \notin ctx.open

\* embedded mode was selected although another port was open
C8_Witness ==
    /\ lastEvent[1] = "Tor"
    /\ ~tor.localTor
    /\ tor.torPort = EmbeddedTorPort
    /\ ctx.open = TorPortArgs \ {DefaultTorPort}

(***************************************************************************)
(* The torrc lines as the properties read them.                            *)
(***************************************************************************)
CfgFileLines == split(cfg.text, Newline)

\* the value of a SocksPort line is host:port with an all-digit port
ValidHostPort(line) ==
    /\ hasMatch(line)
    /\ \E k \in 2..(Len(captured(line)) - 1) :
          /\ captured(line)[k] = ":"
          /\ \A j \in 1..(k - 1) : captured(line)[j] # ":"
          /\ \A j \in (k + 1)..Len(captured(line)) : captured(line)[j] \in Digits

\* the value of a SocksPort line is an all-digit port
ValidBarePort(line) ==
    /\ hasMatch(line)
    /\ \A j \in 1..Len(captured(line)) : captured(line)[j] \in Digits

ValidLine(line) == ValidHostPort(line) \/ ValidBarePort(line)

HasValidLine == \E i \in 1..Len(CfgFileLines) : ValidLine(CfgFileLines[i])

FirstValidLine ==
    CfgFileLines[CHOOSE i \in 1..Len(CfgFileLines) :
                    /\ ValidLine(CfgFileLines[i])
                    /\ \A j \in 1..(i - 1) : ~ValidLine(CfgFileLines[j])]

ColonAt(line) == CHOOSE k \in 1..Len(captured(line)) : captured(line)[k] = ":"

HostOf(line) == SubSeq(captured(line), 1, ColonAt(line) - 1)

PortOf(line) ==
    IF ValidBarePort(line) THEN Decimal(captured(line))
    ELSE Decimal(SubSeq(captured(line), ColonAt(line) + 1, Len(captured(line))))

C10_InvalidLinesSkipped ==
    (pc = "done" /\ cfg.exists /\ HasValidLine /\ ValidBarePort(FirstValidLine)) =>
        /\ peer.host = DefaultHost
        /\ peer.port = PortOf(FirstValidLine)

(***************************************************************************)
(* C11: for a missing path the call returns 127.0.0.1, 9050 and the probe  *)
(* of 127.0.0.1:9050, and does not read a file; in every case the active   *)
(* flag returned is the probe of the host and port returned.               *)
(***************************************************************************)
C11_ActiveIsLiveProbe ==
    pc = "done" =>
        /\ peer.active = IF peer.host = DefaultHost /\ peer.port = DefaultTorPort
                         THEN cfg.openDefault ELSE cfg.openOther
        /\ ~cfg.exists =>
              /\ peer.host = DefaultHost
              /\ peer.port = DefaultTorPort
              /\ peer.active = cfg.openDefault
              /\ fileReads = 0

\* a missing path, with 127.0.0.1:9050 the only endpoint open
C11_Witness ==
    /\ pc = "done"
    /\ ~cfg.exists
    /\ cfg.openDefault /\ ~cfg.openOther
    /\ peer = [host |-> DefaultHost, port |-> DefaultTorPort, active |-> TRUE]
    /\ fileReads = 0

\* the chunks received, as the text they add to the log
RECURSIVE ChunksAsText(_)
ChunksAsText(chunks) ==
    IF chunks = <<>> THEN <<>>
    ELSE ChunksAsText(SubSeq(chunks, 1, Len(chunks) - 1))
         \o barrayToString(chunks[Len(chunks)])

\* a is an initial part of b
IsPrefix(a, b) == Len(a) <= Len(b) /\ SubSeq(b, 1, Len(a)) = a

(***************************************************************************)
(* C12: the log is append-only: after every step it is the chunks received *)
(* so far, as text, in arrival order; the log before a step is a prefix of *)
(* the log after it; and handling a chunk appends it and then emits        *)
(* logsUpdated.                                                            *)
(***************************************************************************)
C12_LogAppendOnly ==
    [][ /\ tor'.torLogs = ChunksAsText(received')
        /\ IsPrefix(tor.torLogs, tor'.torLogs)
        /\ OutputHandled =>
              /\ tor'.torLogs = tor.torLogs \o barrayToString(received'[Len(received')])
              /\ tor'.emitted[1] = <<"logsUpdated">>
        /\ ~OutputHandled => tor'.torLogs = tor.torLogs ]_vars

\* two different chunks were handled
C12_Witness ==
    /\ Len(received) = 2
    /\ received[1] # received[2]
    /\ tor.torLogs = received[1] \o received[2]
    /\ lastEvent[1] = "output"
    /\ tor.emitted[1] = <<"logsUpdated">>

\* m_stopRetries as stateChanged finds it in a step to NotRunning: set before the
\* step, or set by the FailedToStart error when that is delivered first
LatchedAtNotification ==
    tor.m_stopRetries \/ lastEvent' = <<"failedToStart", "errorFirst">>

(***************************************************************************)
(* C13: in embedded mode every state change to NotRunning sets             *)
(* torConnected false and emits that first (it is the only signal of the   *)
(* step); it arms exactly one restart timer when m_stopRetries is false    *)
(* and none when it is true.  The Crashed error arms none, so one crash    *)
(* gives one restart.                                                      *)
(***************************************************************************)
C13_OneRestartPerExit ==
    [][ (BecameNotRunning /\ ~tor.localTor) =>
          /\ ~tor'.torConnected
          /\ tor'.emitted = << <<"connectionStateChanged", FALSE>> >>
          /\ tor'.pending = tor.pending + (IF LatchedAtNotification THEN 0 ELSE 1) ]_vars

\* the only child bootstrapped and then crashed: disconnected, one timer armed
C13_Witness ==
    /\ ~tor.localTor
    /\ lastEvent[1] = "crashed"
    /\ tor.spawned = 1
    /\ Len(received) >= 1 /\ Contains(received[1], BootstrapMarker)
    /\ ~tor.m_stopRetries
    /\ ~tor.torConnected
    /\ tor.pending = 1

\* a step in which QProcess reports that the launch failed
LaunchFailed == tor.procState = Starting /\ BecameNotRunning

(***************************************************************************)
(* C14: a launch that fails to start arms no restart timer, in whichever   *)
(* order stateChanged(NotRunning) and errorOccurred(FailedToStart) of that *)
(* launch are delivered.                                                   *)
(***************************************************************************)
C14_FailedLaunchNoRestart ==
    [][ (LaunchFailed /\ ~tor.localTor) =>
          /\ tor'.m_stopRetries
          /\ tor'.pending = tor.pending ]_vars

\* start() was called, by the application or by a timer, and returned at line 87
\* because the port was open, with the ceiling not reached and no fatal failure
PortBusyAbort(how) ==
    /\ ~tor.localTor
    /\ lastEvent = <<"start", how>>
    /\ tor.errorMsg = ErrPortInUse
    /\ tor.m_restarts < MaxRestarts
    /\ ~tor.m_stopRetries

\* a child exited or crashed and stateChanged found m_stopRetries false
ExitedUnlatched ==
    /\ ~tor.localTor
    /\ lastEvent[1] \in {"crashed", "exited"}
    /\ ~tor.m_stopRetries

TimerStartCalled == lastEvent = <<"start", "timer">>

(***************************************************************************)
(* C15: after a crash, and after a start() that the application called and *)
(* that was aborted because the port was in use, start() is eventually     *)
(* called again by a timer, when the ceiling is not reached and            *)
(* m_stopRetries is false.                                                 *)
(***************************************************************************)
C15_TransientRetried ==
    /\ ExitedUnlatched ~> TimerStartCalled
    /\ PortBusyAbort("call") ~> TimerStartCalled

\* C15 as amended: after a crash or exit with m_stopRetries false, start() is
\* eventually called again by the timer; a start() aborted because the port was in
\* use arms no timer
C15_CrashRetried ==
    /\ ExitedUnlatched ~> TimerStartCalled
    /\ [][ (StartCalled /\ ~tor.localTor /\ tor'.errorMsg = ErrPortInUse
              /\ tor.procState = NotRunning /\ portOpen) =>
             tor'.pending <= tor.pending ]_vars

\* the timer armed by a crash called start(), which was aborted for the port,
\* and no timer is left
C15_Witness ==
    /\ PortBusyAbort("timer")
    /\ tor.spawned = 1
    /\ tor.pending = 0
    /\ tor.procState = NotRunning

(***************************************************************************)
(* C16: stop() cancels no restart timer: the timers pending before stop()  *)
(* are pending after it, a pending timer still calls start() afterwards,   *)
(* and that start() spawns a child when no child is running, the port is   *)
(* free and the ceiling is not reached.                                    *)
(***************************************************************************)
C16_StopKeepsPendingRestart ==
    /\ [][ CallStop => tor'.pending = tor.pending ]_vars
    /\ (lastEvent = <<"stop">> /\ tor.pending > 0) ~> TimerStartCalled
    /\ [][ (RestartTimer /\ tor.procState = NotRunning /\ ~portOpen
              /\ tor.m_restarts < MaxRestarts) =>
             (/\ tor'.spawned = tor.spawned + 1
              /\ tor'.procState = Starting
              /\ tor'.live = 1) ]_vars

\* stop() was called with a timer pending, no child, the port free, the ceiling
\* not reached
C16_Witness ==
    /\ lastEvent = <<"stop">>
    /\ tor.pending >= 1
    /\ tor.procState = NotRunning
    /\ ~portOpen
    /\ tor.m_restarts < MaxRestarts

\* the connectivity checkConnection is to report, by the first rule that applies
ResolvedConnectivity(code) ==
    CASE ctx.isTorSocks -> TRUE
      [] ~ctx.isTorSocks /\ ctx.isWhonix -> TRUE
      [] ~ctx.isTorSocks /\ ~ctx.isWhonix /\ ctx.isTails -> (code = 0)
      [] ~ctx.isTorSocks /\ ~ctx.isWhonix /\ ~ctx.isTails -> portOpen

\* setConnectionState was called once, with this value
CalledOnceWith(value) ==
    /\ tor'.torConnected = value
    /\ tor'.emitted = << <<"connectionStateChanged", value>> >>

(***************************************************************************)
(* C17: checkConnection, run by the timer or by start() in local mode,     *)
(* calls setConnectionState exactly once, with: true under torsocks; else  *)
(* true under Whonix; else, under Tails, whether the helper exited with 0; *)
(* else whether the port is open.                                          *)
(***************************************************************************)
C17_CheckConnectionOrder ==
    [][ /\ CheckTimer => CalledOnceWith(ResolvedConnectivity(lastEvent'[2]))
        /\ (CallStart /\ tor.localTor) =>
              \E code \in HelperCodes :
                  /\ tor' = start(Begin(tor), code)
                  /\ CalledOnceWith(ResolvedConnectivity(code)) ]_vars

\* Tails, no torsocks, no Whonix: the helper failed while the port was open
C17_Witness ==
    /\ lastEvent = <<"checkConnection", 3>>
    /\ ctx.isTails /\ ~ctx.isTorSocks /\ ~ctx.isWhonix
    /\ portOpen
    /\ ~tor.torConnected
    /\ tor.emitted = << <<"connectionStateChanged", FALSE>> >>

\* a start() in embedded mode that passes the state check and the port probe
ReachesCounter == StartCalled /\ ~tor.localTor /\ tor.procState = NotRunning /\ ~portOpen

\* the step launched a child
Launched ==
    /\ tor'.spawned = tor.spawned + 1
    /\ tor'.live = tor.live + 1
    /\ tor'.procState = Starting

(***************************************************************************)
(* C18 as stated: each of the first five start() attempts that reach the   *)
(* restart counter launches a child, and only the next one fails with the  *)
(* restart-limit error.                                                    *)
(***************************************************************************)
C18_FirstFiveLaunch ==
    [][ ReachesCounter =>
          /\ tor'.m_restarts = tor.m_restarts + 1
          /\ tor'.m_restarts <= 5 => Launched
          /\ tor'.m_restarts > 5 =>
                (tor'.errorMsg = ErrMaxRetries /\ tor'.spawned = tor.spawned) ]_vars

(***************************************************************************)
(* C18: m_restarts goes up by one on exactly the start() attempts that     *)
(* pass the state check and the port probe; the first four of them launch  *)
(* a child, the fifth and every later one fails with the restart-limit     *)
(* error and launches nothing.                                             *)
(***************************************************************************)
C18_FirstFourLaunch ==
    [][ /\ ReachesCounter =>
              /\ tor'.m_restarts = tor.m_restarts + 1
              /\ tor'.m_restarts <= MaxRestarts => Launched
              /\ tor'.m_restarts > MaxRestarts =>
                    /\ tor'.errorMsg = ErrMaxRetries
                    /\ tor'.spawned = tor.spawned
                    /\ tor'.live = tor.live
                    /\ tor'.procState = NotRunning
        /\ (StartCalled /\ ~ReachesCounter) =>
              /\ tor'.m_restarts = tor.m_restarts
              /\ tor'.spawned = tor.spawned ]_vars

\* the fourth counted attempt has just launched the fourth child
C18_Witness ==
    /\ ~tor.localTor
    /\ lastEvent[1] = "start"
    /\ tor.m_restarts = MaxRestarts
    /\ tor.spawned = MaxRestarts
    /\ tor.procState = Starting

(***************************************************************************)
(* C19: no step lowers m_restarts, and no step sets m_stopRetries back to  *)
(* false once it is true.                                                  *)
(***************************************************************************)
C19_CountersMonotone ==
    [][ /\ tor'.m_restarts >= tor.m_restarts
        /\ tor.m_stopRetries => tor'.m_stopRetries ]_vars

\* a child was launched by start() after the latch was set by a failed launch
C19_Witness ==
    /\ tor.m_stopRetries
    /\ lastEvent[1] = "start"
    /\ tor.m_restarts >= 2
    /\ tor.procState = Starting

\* the values of the connectionStateChanged notifications in a list of signals
RECURSIVE ConnectionNotes(_)
ConnectionNotes(signals) ==
    IF signals = <<>> THEN <<>>
    ELSE IF Head(signals)[1] = "connectionStateChanged"
         THEN <<Head(signals)[2]>> \o ConnectionNotes(Tail(signals))
         ELSE ConnectionNotes(Tail(signals))

(***************************************************************************)
(* C20: a handler that changes torConnected emits connectionStateChanged,  *)
(* a handler that emits none leaves torConnected as it was, and every      *)
(* notification of a handler carries the value torConnected has been given.*)
(***************************************************************************)
C20_ConnectedOnlyBySetter ==
    [][ LET notes == ConnectionNotes(tor'.emitted) IN
        /\ notes = <<>> => tor'.torConnected = tor.torConnected
        /\ \A i \in 1..Len(notes) : notes[i] = tor'.torConnected ]_vars

\* a child that had bootstrapped exited: the flag fell and FALSE was notified
C20_Witness ==
    /\ ~tor.localTor
    /\ lastEvent[1] = "exited"
    /\ Len(received) >= 1
    /\ Contains(received[Len(received)], BootstrapMarker)
    /\ ~tor.torConnected
    /\ ConnectionNotes(tor.emitted) = <<FALSE>>

\* a step in which QProcess reports the state change to Running
BecameRunning == tor.procState = Starting /\ tor'.procState = Running

(***************************************************************************)
(* C21: in embedded mode, after every handler, torConnected implies that   *)
(* the child is Running, and the connection timer is not armed; the flag   *)
(* goes from false to true only when a chunk holding the bootstrap marker  *)
(* is handled; every change to NotRunning leaves it false; the change to   *)
(* Running finds it false and leaves it false, with nothing notified.      *)
(***************************************************************************)
C21_ConnectedImpliesRunning ==
    /\ [](~tor.localTor => /\ tor.torConnected => tor.procState = Running
                           /\ ~tor.timerActive)
    /\ [][ ~tor.localTor =>
             /\ (~tor.torConnected /\ tor'.torConnected) =>
                   /\ OutputHandled
                   /\ Contains(received'[Len(received')], BootstrapMarker)
             /\ BecameNotRunning => ~tor'.torConnected
             /\ BecameRunning => /\ ~tor.torConnected
                                 /\ ~tor'.torConnected
                                 /\ ConnectionNotes(tor'.emitted) = <<>> ]_vars

\* the second child, started after the first one was lost, has bootstrapped
C21_Witness ==
    /\ ~tor.localTor
    /\ tor.spawned = 2
    /\ tor.procState = Running
    /\ lastEvent[1] = "output"
    /\ tor.torConnected
    /\ ~tor.timerActive

\* a start() in embedded mode that finds no child and the port open
PortBusyStart ==
    StartCalled /\ ~tor.localTor /\ tor.procState = NotRunning /\ portOpen

(***************************************************************************)
(* C22: a start() in embedded mode that is aborted because the port is     *)
(* open sets the "port already in use" error, launches no child, and       *)
(* leaves m_restarts, m_stopRetries and torConnected as they were, with    *)
(* nothing notified.                                                       *)
(***************************************************************************)
C22_PortBusyAbortFrame ==
    [][ PortBusyStart =>
          /\ tor'.errorMsg = ErrPortInUse
          /\ tor'.spawned = tor.spawned
          /\ tor'.live = tor.live
          /\ tor'.procState = NotRunning
          /\ tor'.m_restarts = tor.m_restarts
          /\ tor'.m_stopRetries = tor.m_stopRetries
          /\ tor'.torConnected = tor.torConnected
          /\ tor'.emitted = <<>> ]_vars

\* an abort on the open port after two counted attempts and a failed launch
C22_Witness ==
    /\ ~tor.localTor
    /\ lastEvent[1] = "start"
    /\ portOpen
    /\ tor.procState = NotRunning
    /\ tor.errorMsg = ErrPortInUse
    /\ tor.m_restarts = 2
    /\ tor.m_stopRetries
    /\ tor.spawned = 2

====
